---- MODULE Spec2Model ----
(***************************************************************************)
(* The products REST API (src/products): one Product table, one            *)
(* ProductSerializer that validates and authorizes writes, and four route  *)
(* families (fbv, api-view, mixin, generic) that expose list/create on the *)
(* collection and retrieve/update/destroy on one record.                   *)
(*                                                                         *)
(* No view opens a transaction, so every database statement of a request   *)
(* commits on its own and the server's workers interleave: a request is a  *)
(* sequence of steps, one per database statement, each step taking the     *)
(* Python code that follows the statement up to the next statement or to   *)
(* the Response.  Between two steps of one request any step of another     *)
(* request may run.  An uncaught Python exception ends the request with    *)
(* status 500.                                                             *)
(*                                                                         *)
(* Optional values (a payload key that may be absent, serializer.instance  *)
(* that may be None) are sequences of length 0 or 1.                       *)
(* Product names are numbered: name k is the k-th distinct name.           *)
(* The columns description and created_at are not modelled: no code of     *)
(* the repository reads them (description is copied unvalidated,           *)
(* created_at is read-only and set by the database clock).                 *)
(***************************************************************************)
EXTENDS Integers, Sequences, FiniteSets, Bags, TLC

VARIABLES store, next_id, inflight, request, response

vars == <<store, next_id, inflight, request, response>>

\* ---------------------------------------------------------------- bounds
\* the pagination specification lists tables of 0..MaxCount records
MaxCount == 25
\* page numbers 0..MaxPage are requested
MaxPage == 4

\* ------------------------------------------------------- input domains
Users == {"alice", "bob"}
AnonymousUser == "anonymous"
Callers == Users \cup {AnonymousUser}
\* the callers of the requests whose view never reads request.user beyond
\* the permission check: one unauthenticated, one authenticated
Readers == {AnonymousUser, "bob"}
Names == {1, 2, 3}
StoredPrices == {0}
Owners == {"alice"}
PayloadPrices == {-5, 0}
\* the server's worker processes: each handles one request at a time
Workers == {"w1", "w2"}
\* the ids that hold a record in some table of the main specification
Ids == {1, 2}

None == <<>>
Some(x) == <<x>>
IsSome(o) == Len(o) = 1
Get(o) == o[1]

\* ------------------------------------------------------------ urls.py
Families == {"fbv", "api-view", "mixin", "generic"}

\* the <product_id>/<pk> path segment: a decimal number or other text
PkInputs == [numeric : {TRUE}, value : Ids]
              \cup {[numeric |-> FALSE, value |-> 0]}

\* request.data: name, price and created_by may each be present or absent
Payloads == [name : {None} \cup {Some(n) : n \in Names},
             price : {None} \cup {Some(p) : p \in PayloadPrices},
             created_by : {Some("bob")}]

\* a collection route has no id segment
NoPk == None
\* the body of a request whose view has not read request.data
NoData == [name |-> None, price |-> None, created_by |-> None]

Req(family, method, user, pk, data, page) ==
    [family |-> family, method |-> method, user |-> user, pk |-> pk,
     data |-> data, page |-> page]

\* ----------------------------------------------------------- models.py
\* a row of the Product table; the key of `store` is the id column
Product(name, price, created_by) ==
    [name |-> name, price |-> price, created_by |-> created_by]

\* a Product object in a worker's memory: the row as it was loaded
Instance(id, rec) ==
    [id |-> id, name |-> rec.name, price |-> rec.price,
     created_by |-> rec.created_by]

\* unique=True on name: no two rows share a name
NameUnique(s) ==
    \A i, j \in DOMAIN s : s[i].name = s[j].name => i = j

\* PositiveIntegerField: the column holds no negative number
PricePositive(s) == \A i \in DOMAIN s : s[i].price >= 0

\* the tables the database can hold over Ids
Tables ==
    LET Rows == [name : Names, price : StoredPrices, created_by : Owners]
    IN  {s \in UNION {[D -> Rows] : D \in SUBSET Ids} :
            NameUnique(s) /\ PricePositive(s)}

\* Product.objects.filter(name=name).exists()
name_exists(s, name) == \E i \in DOMAIN s : s[i].name = name

\* Product.objects.all() in the table's default order (by id)
RECURSIVE SortedIds(_)
SortedIds(S) ==
    IF S = {} THEN <<>>
    ELSE LET m == CHOOSE x \in S : \A y \in S : x <= y
         IN  <<m>> \o SortedIds(S \ {m})

objects_all(s) == SortedIds(DOMAIN s)

\* the UNIQUE index on the name column refuses a write that would leave
\* the row `id` sharing its name with another row
IntegrityError(s, id, name) == \E i \in DOMAIN s \ {id} : s[i].name = name

\* the primary key refuses the INSERT of an id that holds a row
PrimaryKeyError(s, id) == id \in DOMAIN s

\* Model.save() of an object that has a primary key runs two statements.
\* The first: UPDATE every column WHERE id = pk, which matches one row or
\* none and leaves the table alone when it matches none
do_update(s, obj) ==
    [i \in DOMAIN s |->
        IF i = obj.id THEN Product(obj.name, obj.price, obj.created_by)
        ELSE s[i]]

\* The second, run when the UPDATE matched no row: INSERT the object under
\* its id.  Product.objects.create() runs the INSERT alone
do_insert(s, obj) ==
    [i \in DOMAIN s \cup {obj.id} |->
        IF i = obj.id THEN Product(obj.name, obj.price, obj.created_by)
        ELSE s[i]]

\* Model.delete(): DELETE WHERE id = pk, whether or not the row is there
delete(s, id) == [i \in DOMAIN s \ {id} |-> s[i]]

\* -------------------------------------------------------- responses
HTTP_200_OK == 200
HTTP_201_CREATED == 201
HTTP_202_ACCEPTED == 202
HTTP_204_NO_CONTENT == 204
HTTP_400_BAD_REQUEST == 400
HTTP_403_FORBIDDEN == 403
HTTP_404_NOT_FOUND == 404
HTTP_405_METHOD_NOT_ALLOWED == 405
HTTP_500_SERVER_ERROR == 500

Resp(status, errors) ==
    [status |-> status, errors |-> errors, record |-> None,
     results |-> <<>>, count |-> 0, next |-> FALSE, previous |-> FALSE]

\* the body of a response that carries one record: serializer.data
RecordResp(status, obj) == [Resp(status, {}) EXCEPT !.record = Some(obj)]

NoResponse == Resp(0, {})

\* ------------------------------------------------------- serializer.py
\* Meta.read_only_fields: created_by (like id and created_at) is dropped
\* from the incoming data; only name and price reach validated_data
writable_all(data) == data

writable(data) == [data EXCEPT !.created_by = None]

\* unique=True gives the name field a UniqueValidator: one query over
\* Product.objects.all(), which excludes serializer.instance on update
unique_name_skipped(s, instance, name) == FALSE

unique_name_error(s, instance, name) ==
    \E i \in DOMAIN s :
        /\ s[i].name = name
        /\ ~(IsSome(instance) /\ Get(instance).id = i)

\* PositiveIntegerField gives the price field a minimum of 0
min_value_error(price) == price < 0

\* field validation (Serializer.to_internal_value over Meta.fields):
\* the set of field errors, empty when every field is valid; name is
\* required unless the update is partial, price (which has a default) is not
field_errors(s, instance, data, partial) ==
    (IF ~IsSome(data.name)
     THEN (IF partial THEN {} ELSE {"name.required"})
     ELSE IF unique_name_error(s, instance, Get(data.name))
          THEN {"name.unique"} ELSE {})
    \cup
    (IF IsSome(data.price) /\ min_value_error(Get(data.price))
     THEN {"price.min_value"} ELSE {})

\* ProductSerializer.validate(attrs): the exception it raises, or "ok".
\* self.instance is the object the view loaded, not the row as it is now;
\* the one statement it runs is the query of line 27.
\* Two faulty variants precede it.
validate_no_owner_check(s, instance, attrs, user) ==
    IF ~IsSome(instance) THEN "AttributeError"
    ELSE IF ~IsSome(attrs.price) THEN "TypeError"
    ELSE IF IsSome(attrs.name) /\ name_exists(s, Get(attrs.name))
         THEN "duplicate_name"
    ELSE IF Get(attrs.price) < 0 THEN "negative_price"
    ELSE "ok"

validate_excluding_instance(s, instance, attrs, user) ==
    IF ~IsSome(instance) THEN "AttributeError"
    ELSE IF ~IsSome(attrs.price) THEN "TypeError"
    ELSE IF Get(instance).created_by # user THEN "permission_denied"
    ELSE IF /\ IsSome(attrs.name)
            /\ \E i \in DOMAIN s \ {Get(instance).id} :
                  s[i].name = Get(attrs.name)
         THEN "duplicate_name"
    ELSE IF Get(attrs.price) < 0 THEN "negative_price"
    ELSE "ok"

validate(s, instance, attrs, user) ==
    \* owner = self.instance.created_by, with self.instance None on create
    IF ~IsSome(instance) THEN "AttributeError"
    \* price = int(attrs.get('price')), with attrs.get('price') None
    ELSE IF ~IsSome(attrs.price) THEN "TypeError"
    ELSE IF Get(instance).created_by # user THEN "permission_denied"
    ELSE IF IsSome(attrs.name) /\ name_exists(s, Get(attrs.name))
         THEN "duplicate_name"
    ELSE IF Get(attrs.price) < 0 THEN "negative_price"
    ELSE "ok"

\* what validate() raises on lines 16-25, before its query: the outcome
\* does not depend on the table
RaisedBeforeQuery == {"AttributeError", "TypeError", "permission_denied"}

\* Serializer.run_validation up to the query of validate(): the field
\* validators, then validate() as far as line 25.  A ValidationError makes
\* the data invalid, any other exception propagates; "pending" is a
\* validation that goes on to the query of line 27
run_validation(s, instance, data, user, partial) ==
    LET ferr == field_errors(s, instance, data, partial)
        attrs == writable(data)
        v == validate(s, instance, attrs, user)
    IN  IF ferr # {} THEN [kind |-> "invalid", errors |-> ferr]
        ELSE IF v \in RaisedBeforeQuery \ {"permission_denied"}
             THEN [kind |-> "raised", errors |-> {v}]
        ELSE IF v \in RaisedBeforeQuery
             THEN [kind |-> "invalid", errors |-> {v}]
        ELSE [kind |-> "pending", errors |-> {}]

\* validate() from line 27 on: the query for the name, then the price
run_validate(s, instance, data, user) ==
    LET v == validate(s, instance, writable(data), user)
    IN  IF v \in {"AttributeError", "TypeError"}
        THEN [kind |-> "raised", errors |-> {v}]
        ELSE IF v # "ok" THEN [kind |-> "invalid", errors |-> {v}]
        ELSE [kind |-> "valid", errors |-> {}]

\* the views save only when is_valid() is true
is_valid_unchecked(v) == v.kind # "raised"

is_valid(v) == v.kind = "valid"

\* a CharField left out of objects.create() is stored as the empty string
EmptyName == 0

\* ProductSerializer.create: bind created_by to the caller; the object
\* Product.objects.create() inserts, with the id the database assigns and
\* the price defaulting to 0
serializer_create(nid, attrs, user) ==
    [id |-> nid,
     name |-> IF IsSome(attrs.name) THEN Get(attrs.name) ELSE EmptyName,
     price |-> IF IsSome(attrs.price) THEN Get(attrs.price) ELSE 0,
     created_by |-> user]

\* ModelSerializer.update: set every validated attribute on the loaded
\* instance; the object instance.save() then writes
serializer_update(obj, attrs) ==
    [id |-> obj.id,
     name |-> IF IsSome(attrs.name) THEN Get(attrs.name) ELSE obj.name,
     price |-> IF IsSome(attrs.price) THEN Get(attrs.price) ELSE obj.price,
     created_by |-> IF IsSome(attrs.created_by) THEN Get(attrs.created_by)
                    ELSE obj.created_by]

\* ------------------------------------------------------------ views.py
\* ProductsPagination.page_size
page_size == 10

Min(a, b) == IF a < b THEN a ELSE b

\* the number of pages of `count` items: an empty list still has page 1
num_pages(count) ==
    IF count = 0 THEN 1 ELSE (count + page_size - 1) \div page_size

\* Paginator.page: the bounds of page `number` of `count` items,
\* bottom = (number - 1) * per_page and top = bottom + per_page, cut to
\* count when it reaches it
page_top(number, count) ==
    IF number * page_size >= count THEN count ELSE number * page_size

\* a faulty variant: the last record of every full page is left out
page_items_short(items, number, count) ==
    SubSeq(items, (number - 1) * page_size + 1,
           Min(number * page_size - 1, Len(items)))

\* the page query object_list[bottom:top] (LIMIT top - bottom OFFSET
\* bottom) over the rows `items` the table holds when it runs; `count` is
\* the count the paginator has cached
page_items(items, number, count) ==
    SubSeq(items, (number - 1) * page_size + 1,
           Min(page_top(number, count), Len(items)))

\* IsAuthenticatedOrReadOnly: a safe method, or an authenticated caller.
\* A refused caller is answered 403 (the status when the first
\* authentication class sends no WWW-Authenticate challenge).
has_permission(method, user) == method = "GET" \/ user # AnonymousUser

\* a request between two database statements: the request as the view has
\* read it so far, the statement it runs next (pc), the Product object it
\* has loaded and the count its paginator has cached
Ctx(req, pc, instance, count) ==
    [req |-> req, pc |-> pc, instance |-> instance, count |-> count]

\* a request as it reaches its view
Start(req) == Ctx(req, "start", None, 0)

\* the outcome of one step of a request: the table and the id counter after
\* it and either the Response (the request is over) or the request's next
\* position
Done(s, nid, req, resp) ==
    [store |-> s, next_id |-> nid, next |-> None, request |-> req,
     response |-> resp]

Goto(s, nid, c) ==
    [store |-> s, next_id |-> nid, next |-> Some(c), request |-> c.req,
     response |-> NoResponse]

\* the record lookup of a detail route: fbv and api-view call
\* Product.objects.get(id=...), which raises ValueError on a non-numeric
\* id; mixin and generic call get_object(), which answers 404 to both
get_product(family, s, pk) ==
    IF ~pk.numeric
    THEN IF family \in {"fbv", "api-view"}
         THEN Resp(HTTP_500_SERVER_ERROR, {"ValueError"})
         ELSE Resp(HTTP_404_NOT_FOUND, {"not_found"})
    ELSE IF pk.value \notin DOMAIN s
         THEN Resp(HTTP_404_NOT_FOUND, {"not_found"})
    ELSE Resp(HTTP_200_OK, {})

\* GET on the collection (fbv_products, ProductsAPIView.get,
\* ProductsMixinView.get, ProductsGenericView).  paginate_queryset runs two
\* queries: the COUNT that validates the page number, then the page's rows,
\* a slice bounded by the cached COUNT; the slice of a count of 0 is empty
\* and runs no query.  get_paginated_response takes count and next from
\* the cached COUNT
list_products(c, s, nid) ==
    LET number == c.req.page
        count == IF c.pc = "start" THEN Cardinality(DOMAIN s) ELSE c.count
        Page(results) ==
            [Resp(HTTP_200_OK, {}) EXCEPT
                !.results = results,
                !.count = count,
                !.next = number < num_pages(count),
                !.previous = number > 1]
    IN  IF c.pc = "start"
        THEN IF number < 1 \/ number > num_pages(count)
             THEN Done(s, nid, c.req,
                       Resp(HTTP_404_NOT_FOUND, {"invalid_page"}))
             ELSE IF page_top(number, count) = (number - 1) * page_size
             THEN Done(s, nid, c.req, Page(<<>>))
             ELSE Goto(s, nid, [c EXCEPT !.pc = "fetch_page",
                                         !.count = count])
        ELSE Done(s, nid, c.req,
                  Page(page_items(objects_all(s), number, count)))

\* is_valid() up to the query of validate(): `c` holds the body and the
\* instance (None on create)
validate_fields(c, s, nid) ==
    LET req == c.req
        v == run_validation(s, c.instance, req.data, req.user,
                            req.method = "PATCH")
    IN  IF v.kind = "raised"
        THEN Done(s, nid, req, Resp(HTTP_500_SERVER_ERROR, v.errors))
        ELSE IF v.kind = "pending"
        THEN Goto(s, nid, [c EXCEPT !.pc = "validate"])
        ELSE IF is_valid(v)
        THEN Goto(s, nid, [c EXCEPT !.pc = "save"])
        ELSE Done(s, nid, req, Resp(HTTP_400_BAD_REQUEST, v.errors))

\* is_valid() from the query of validate() on
validate_query(c, s, nid) ==
    LET req == c.req
        v == run_validate(s, c.instance, req.data, req.user)
    IN  IF v.kind = "raised"
        THEN Done(s, nid, req, Resp(HTTP_500_SERVER_ERROR, v.errors))
        ELSE IF is_valid(v)
        THEN Goto(s, nid, [c EXCEPT !.pc = "save"])
        ELSE Done(s, nid, req, Resp(HTTP_400_BAD_REQUEST, v.errors))

\* POST on the collection: the body is read, is_valid() runs and, when it
\* is true, save() inserts through ProductSerializer.create, under the id
\* the database assigns
create_product(c, s, nid, data) ==
    LET req == c.req
        obj == serializer_create(nid, writable(req.data), req.user)
    IN  IF c.pc = "start"
        THEN IF ~has_permission(req.method, req.user)
             THEN Done(s, nid, req,
                       Resp(HTTP_403_FORBIDDEN, {"not_authenticated"}))
             ELSE validate_fields([c EXCEPT !.req.data = data], s, nid)
        ELSE IF c.pc = "validate" THEN validate_query(c, s, nid)
        ELSE IF IntegrityError(s, obj.id, obj.name)
        THEN Done(s, nid, req,
                  Resp(HTTP_500_SERVER_ERROR, {"IntegrityError"}))
        ELSE Done(do_insert(s, obj), nid + 1, req,
                  RecordResp(HTTP_201_CREATED, obj))

\* GET on one record
retrieve_product(c, s, nid) ==
    LET found == get_product(c.req.family, s, Get(c.req.pk))
        id == Get(c.req.pk).value
    IN  IF found.status # HTTP_200_OK THEN Done(s, nid, c.req, found)
        ELSE Done(s, nid, c.req,
                  RecordResp(HTTP_200_OK, Instance(id, s[id])))

\* the status of an accepted update: the fbv and api-view routes answer
\* 202, UpdateModelMixin.update answers 200
update_status(family) ==
    IF family \in {"fbv", "api-view"} THEN HTTP_202_ACCEPTED ELSE HTTP_200_OK

\* PUT on one record: the lookup, then the body is read and is_valid()
\* runs (the UniqueValidator's query, then the query of validate()), then
\* save() writes the loaded instance: its UPDATE and, when the row is no
\* longer there, its INSERT.  PATCH, the partial update, is routed by
\* RetrieveUpdateDestroyAPIView alone and is no method of the other views
update_product(c, s, nid, data) ==
    LET req == c.req
        found == get_product(req.family, s, Get(req.pk))
        id == Get(req.pk).value
        obj == serializer_update(Get(c.instance), writable(req.data))
    IN  IF c.pc = "start"
        THEN IF ~has_permission(req.method, req.user)
             THEN Done(s, nid, req,
                       Resp(HTTP_403_FORBIDDEN, {"not_authenticated"}))
             ELSE IF req.method = "PATCH" /\ req.family # "generic"
             THEN Done(s, nid, req, Resp(HTTP_405_METHOD_NOT_ALLOWED,
                                         {"method_not_allowed"}))
             ELSE IF found.status # HTTP_200_OK
             THEN Done(s, nid, req, found)
             ELSE Goto(s, nid, [c EXCEPT !.pc = "is_valid",
                                   !.instance = Some(Instance(id, s[id]))])
        ELSE IF c.pc = "is_valid"
        THEN validate_fields([c EXCEPT !.req.data = data], s, nid)
        ELSE IF c.pc = "validate" THEN validate_query(c, s, nid)
        ELSE IF c.pc = "save"
        THEN IF obj.id \notin DOMAIN s
             THEN Goto(s, nid, [c EXCEPT !.pc = "insert"])
             ELSE IF IntegrityError(s, obj.id, obj.name)
             THEN Done(s, nid, req,
                       Resp(HTTP_500_SERVER_ERROR, {"IntegrityError"}))
             ELSE Done(do_update(s, obj), nid, req,
                       RecordResp(update_status(req.family), obj))
        ELSE IF PrimaryKeyError(s, obj.id)
                \/ IntegrityError(s, obj.id, obj.name)
        THEN Done(s, nid, req,
                  Resp(HTTP_500_SERVER_ERROR, {"IntegrityError"}))
        ELSE Done(do_insert(s, obj), nid, req,
                  RecordResp(update_status(req.family), obj))

\* DELETE on one record: the lookup and the owner check, then delete().
\* On the mixin and generic routes the view's own get_object() is followed
\* by the get_object() of DestroyModelMixin.destroy, a second lookup
destroy_product(c, s, nid) ==
    LET req == c.req
        found == get_product(req.family, s, Get(req.pk))
        id == Get(req.pk).value
    IN  IF c.pc = "start"
        THEN IF ~has_permission(req.method, req.user)
             THEN Done(s, nid, req,
                       Resp(HTTP_403_FORBIDDEN, {"not_authenticated"}))
             ELSE IF found.status # HTTP_200_OK
             THEN Done(s, nid, req, found)
             ELSE IF s[id].created_by # req.user
             THEN Done(s, nid, req,
                       Resp(HTTP_403_FORBIDDEN, {"permission_denied"}))
             ELSE Goto(s, nid,
                    [c EXCEPT !.pc = IF req.family \in {"fbv", "api-view"}
                                     THEN "delete" ELSE "get_object",
                              !.instance = Some(Instance(id, s[id]))])
        ELSE IF c.pc = "get_object"
        THEN IF found.status # HTTP_200_OK
             THEN Done(s, nid, req, found)
             ELSE Goto(s, nid, [c EXCEPT !.pc = "delete",
                                   !.instance = Some(Instance(id, s[id]))])
        ELSE Done(delete(s, id), nid, req, Resp(HTTP_204_NO_CONTENT, {}))

\* the route table of urls.py and the views' method tables: the step the
\* request at `c` takes on table `s`; `data` is the body, for the step
\* that reads it
dispatch(c, s, nid, data) ==
    CASE c.req.method = "GET" /\ c.req.pk = NoPk -> list_products(c, s, nid)
      [] c.req.method = "POST" -> create_product(c, s, nid, data)
      [] c.req.method = "GET" /\ c.req.pk # NoPk -> retrieve_product(c, s, nid)
      [] c.req.method \in {"PUT", "PATCH"} -> update_product(c, s, nid, data)
      [] c.req.method = "DELETE" -> destroy_product(c, s, nid)

\* ------------------------------------------------------------ actions
NoRequest == Req("fbv", "NONE", AnonymousUser, NoPk, NoData, 1)

\* one step of the request at `c`, the other requests in flight being
\* `others`: the step's writes reach the table at once; the request either
\* stays in flight or ends with its Response
Handle(c, data, others) ==
    LET out == dispatch(c, store, next_id, data)
    IN  /\ store' = out.store
        /\ next_id' = out.next_id
        /\ response' = out.response
        /\ request' = IF IsSome(out.next) THEN NoRequest ELSE out.request
        /\ inflight' = IF IsSome(out.next)
                       THEN others (+) SetToBag({Get(out.next)})
                       ELSE others

\* a worker is free to take a new request
Idle ==
    /\ request = NoRequest
    /\ BagCardinality(inflight) < Cardinality(Workers)

\* the request at `c` runs its next statement
Continue(c, data) ==
    /\ request = NoRequest
    /\ Handle(c, data, inflight (-) SetToBag({c}))

List ==
    /\ Idle
    /\ \E family \in Families, user \in Readers,
          page \in 0..Min(MaxPage, num_pages(Cardinality(DOMAIN store)) + 1) :
          Handle(Start(Req(family, "GET", user, NoPk, NoData, page)),
                 NoData, inflight)

FetchPage ==
    \E c \in BagToSet(inflight) : c.pc = "fetch_page" /\ Continue(c, NoData)

\* an unauthenticated POST is refused before its body is read
Create ==
    /\ Idle
    /\ next_id <= Cardinality(Ids) + 1
    /\ \E family \in Families, user \in Readers :
          \E data \in IF has_permission("POST", user) THEN Payloads
                      ELSE {NoData} :
             Handle(Start(Req(family, "POST", user, NoPk, NoData, 1)),
                    data, inflight)

Retrieve ==
    /\ Idle
    /\ \E family \in Families, user \in Readers, pk \in PkInputs :
          Handle(Start(Req(family, "GET", user, Some(pk), NoData, 1)),
                 NoData, inflight)

Update ==
    /\ Idle
    /\ \E family \in Families, user \in Callers, pk \in PkInputs :
          Handle(Start(Req(family, "PUT", user, Some(pk), NoData, 1)),
                 NoData, inflight)

PartialUpdate ==
    /\ Idle
    /\ \E family \in Families, user \in Callers, pk \in PkInputs :
          Handle(Start(Req(family, "PATCH", user, Some(pk), NoData, 1)),
                 NoData, inflight)

\* serializer = ProductSerializer(instance, data=request.data, ...) reads
\* the body; is_valid() starts
IsValid ==
    \E c \in BagToSet(inflight), data \in Payloads :
        c.pc = "is_valid" /\ Continue(c, data)

Validate ==
    \E c \in BagToSet(inflight) : c.pc = "validate" /\ Continue(c, NoData)

\* save(): the UPDATE
Save ==
    \E c \in BagToSet(inflight) : c.pc = "save" /\ Continue(c, NoData)

\* save(): the INSERT that follows an UPDATE of no row
Insert ==
    \E c \in BagToSet(inflight) : c.pc = "insert" /\ Continue(c, NoData)

Destroy ==
    /\ Idle
    /\ \E family \in Families, user \in Callers, pk \in PkInputs :
          Handle(Start(Req(family, "DELETE", user, Some(pk), NoData, 1)),
                 NoData, inflight)

GetObject ==
    \E c \in BagToSet(inflight) : c.pc = "get_object" /\ Continue(c, NoData)

Delete ==
    \E c \in BagToSet(inflight) : c.pc = "delete" /\ Continue(c, NoData)

\* the Response is returned: the request and everything built for it are
\* gone, only the table persists
Respond ==
    /\ request # NoRequest
    /\ request' = NoRequest
    /\ response' = NoResponse
    /\ UNCHANGED <<store, next_id, inflight>>

\* the service starts on any table the database can hold (rows are also
\* written through the ORM: admin, fixtures, shell) with no request in
\* flight; the id counter is past every id the table has ever used
Init ==
    /\ store \in Tables
    /\ next_id = Cardinality(Ids) + 1
    /\ inflight = EmptyBag
    /\ request = NoRequest
    /\ response = NoResponse

Next ==
    \/ List \/ FetchPage
    \/ Create
    \/ Retrieve
    \/ Update \/ PartialUpdate \/ IsValid \/ Validate \/ Save \/ Insert
    \/ Destroy \/ GetObject \/ Delete
    \/ Respond

Spec == Init /\ [][Next]_vars

\* ------------------------------------------------- pagination runs
\* a table of n records with ids 1..n, all distinct names
FilledTable(n) == [i \in 1..n |-> Product(i, 0, "alice")]

PageInit ==
    /\ store \in {FilledTable(n) : n \in 0..MaxCount}
    /\ next_id = MaxCount + 1
    /\ inflight = EmptyBag
    /\ request = NoRequest
    /\ response = NoResponse

PageNext == List \/ FetchPage \/ Respond

\* the collection GET over tables of up to MaxCount records
PageSpec == PageInit /\ [][PageNext]_vars

\* ------------------------------------------------------------ properties
\* In an action formula `store` is the table before the step and `store'`
\* the table after it; request' and response' are the request that ended
\* in the step and its Response (NoRequest when none ended).
Authenticated(user) == user \in Users

OnRecord(req, s) ==
    /\ IsSome(req.pk)
    /\ Get(req.pk).numeric
    /\ Get(req.pk).value \in DOMAIN s

Target(req) == Get(req.pk).value

Rejected(resp) == resp.status >= 400

\* the request that ended in the step
Ended == request' # NoRequest

\* the requests in flight before the step that took it
Continued ==
    {c \in BagToSet(inflight) : CopiesIn(c, inflight') < CopiesIn(c, inflight)}

\* the requests in flight after the step that took it
Moved ==
    {c \in BagToSet(inflight') : CopiesIn(c, inflight') > CopiesIn(c, inflight)}

\* the request that took the step, as it stands after it
Actors == (IF Ended THEN {request'} ELSE {}) \cup {c.req : c \in Moved}

\* C1: a create by an authenticated caller U with an unused name and a
\* price >= 0 answers 201 and adds exactly one record, created_by = U.
\* The code raises AttributeError in validate() instead.
C1_ValidCreateAccepted ==
    [][(/\ request'.method = "POST"
        /\ Authenticated(request'.user)
        /\ IsSome(request'.data.name)
        /\ ~name_exists(store, Get(request'.data.name))
        /\ IsSome(request'.data.price)
        /\ Get(request'.data.price) >= 0)
       => /\ response'.status = 201
          /\ \E id \in DOMAIN store' \ DOMAIN store :
                /\ DOMAIN store' = DOMAIN store \cup {id}
                /\ store'[id].created_by = request'.user
          /\ \A i \in DOMAIN store : store'[i] = store[i]]_vars

\* C2: no step of an update or delete sent by a caller other than the
\* record's created_by, anonymous included, changes the table: the record
\* still exists and every field is as before.
C2_NonOwnerLeavesStore ==
    [][/\ \A r \in Actors :
             (/\ r.method \in {"PUT", "PATCH", "DELETE"}
              /\ OnRecord(r, store)
              /\ store[Target(r)].created_by # r.user)
             => store' = store
       /\ \A c \in Continued :
             (/\ c.req.method \in {"PUT", "PATCH", "DELETE"}
              /\ Get(c.instance).created_by # c.req.user)
             => store' = store]_vars

\* C2 witness: an authenticated non-owner sent an otherwise valid update
\* and it was turned down on ownership.
C2_Witness ==
    /\ request.method = "PUT"
    /\ Authenticated(request.user)
    /\ OnRecord(request, store)
    /\ store[Target(request)].created_by # request.user
    /\ response.errors = {"permission_denied"}

\* C3: a PUT on a stored record by an authenticated non-owner answers 403,
\* not the 400 of a validation failure.  Stated for a payload with nothing
\* else wrong (an unused name and a price >= 0), where ownership is the
\* only ground for rejection.  The code answers 400.
C3_NonOwnerPutForbidden ==
    [][(/\ request'.method = "PUT"
        /\ Authenticated(request'.user)
        /\ OnRecord(request', store)
        /\ store[Target(request')].created_by # request'.user
        /\ IsSome(request'.data.name)
        /\ ~name_exists(store, Get(request'.data.name))
        /\ IsSome(request'.data.price)
        /\ Get(request'.data.price) >= 0)
       => response'.status = 403]_vars

\* C4: a create or update with a price < 0 is rejected, none of its steps
\* changes the table, and every stored price stays >= 0.
C4_NegativePriceRejected ==
    [][/\ \A r \in Actors :
             (/\ r.method \in {"POST", "PUT", "PATCH"}
              /\ IsSome(r.data.price)
              /\ Get(r.data.price) < 0)
             => /\ store' = store
                /\ Ended /\ Rejected(response')
       /\ \A i \in DOMAIN store' : store'[i].price >= 0]_vars

\* C4 witness: the owner sent an update whose only fault is its negative
\* price, and it was turned down for that.
C4_Witness ==
    /\ request.method = "PUT"
    /\ OnRecord(request, store)
    /\ store[Target(request)].created_by = request.user
    /\ IsSome(request.data.price)
    /\ Get(request.data.price) < 0
    /\ response.status = 400
    /\ response.errors = {"price.min_value"}

\* C5: a create whose name is held by a stored record is rejected and
\* persists nothing (answering 400 with the duplicate-name error once the
\* caller is authenticated), and no two stored records ever share a name.
C5_DuplicateNameRejected ==
    [][/\ (/\ request'.method = "POST"
           /\ IsSome(request'.data.name)
           /\ name_exists(store, Get(request'.data.name)))
          => /\ Rejected(response')
             /\ store' = store
             /\ Authenticated(request'.user)
                  => /\ response'.status = 400
                     /\ "name.unique" \in response'.errors
       /\ \A i, j \in DOMAIN store' :
             store'[i].name = store'[j].name => i = j]_vars

\* C5 witness: an authenticated create with a taken name and a valid price
\* was answered with the duplicate-name error alone.
C5_Witness ==
    /\ request.method = "POST"
    /\ Authenticated(request.user)
    /\ IsSome(request.data.name)
    /\ name_exists(store, Get(request.data.name))
    /\ response.status = 400
    /\ response.errors = {"name.unique"}

\* C6: no step changes the created_by of a record, whatever the caller
\* and payload (a payload carrying created_by included), and a record
\* that a save() writes back has the created_by it was loaded with.
C6_CreatedByImmutable ==
    [][/\ \A i \in DOMAIN store \cap DOMAIN store' :
             store'[i].created_by = store[i].created_by
       /\ \A c \in Continued :
             (IsSome(c.instance) /\ Get(c.instance).id \in DOMAIN store')
             => store'[Get(c.instance).id].created_by
                   = Get(c.instance).created_by]_vars

\* C6 witness: alice's update of her own record carried created_by = bob,
\* was accepted, and the record is still hers.
C6_Witness ==
    /\ request.method = "PUT"
    /\ request.user = "alice"
    /\ request.data.created_by = Some("bob")
    /\ response.status \in {200, 202}
    /\ store[Target(request)].created_by = "alice"

\* C7: the delete() of a request by the record's owner answers 204 and
\* removes exactly that record; an id that holds no record never holds one
\* again, so that every later get on it answers 404, as a get on an id
\* that holds no record does.  In the code the save() of an update that
\* loaded the record before the delete inserts it again.
C7_OwnerDeleteThenNotFound ==
    [][/\ \A c \in Continued :
             c.pc = "delete"
             => /\ request' = c.req
                /\ response'.status = 204
                /\ DOMAIN store' = DOMAIN store \ {Target(c.req)}
                /\ \A i \in DOMAIN store' : store'[i] = store[i]
       /\ \A id \in 1..(next_id - 1) :
             id \notin DOMAIN store => id \notin DOMAIN store'
       /\ (/\ request'.method = "GET"
           /\ IsSome(request'.pk)
           /\ Get(request'.pk).numeric
           /\ Get(request'.pk).value \notin DOMAIN store)
          => response'.status = 404]_vars

\* pages 1..n of `items`, one after the other
RECURSIVE PagesUpTo(_, _)
PagesUpTo(items, n) ==
    IF n = 0 THEN <<>>
    ELSE PagesUpTo(items, n - 1) \o page_items(items, n, Len(items))

\* C8: listing N records: page k of the pages that exist answers 200 with
\* the records at positions 10(k-1)+1 .. min(10k, N) in order (so
\* min(10, N - 10(k-1)) of them) and the count N, next is set exactly when
\* 10k < N, and every record is on exactly one page, once (the pages put
\* one after the other are the records in order).
C8_Pagination ==
    LET N == Cardinality(DOMAIN store)
        k == request.page
    IN  /\ (/\ request.method = "GET"
            /\ request.pk = NoPk
            /\ k >= 1
            /\ (k = 1 \/ 10 * (k - 1) < N))
           => /\ response.status = 200
              /\ response.count = N
              /\ Len(response.results) = Min(10, N - 10 * (k - 1))
              /\ \A i \in 1..Len(response.results) :
                    response.results[i] = 10 * (k - 1) + i
              /\ response.next = (10 * k < N)
        /\ PagesUpTo(objects_all(store), num_pages(N)) = objects_all(store)

\* C8 witness: page 2 of 15 records holds the remaining 5 and no next.
C8_Witness ==
    /\ Cardinality(DOMAIN store) = 15
    /\ request.method = "GET"
    /\ request.page = 2
    /\ response.status = 200
    /\ Len(response.results) = 5
    /\ ~response.next

\* the step the request that ended would have taken on the route of
\* family f, from the same position and on the same table
OnFamily(f) ==
    LET c == IF Continued = {} THEN Start([request' EXCEPT !.data = NoData])
             ELSE CHOOSE x \in Continued : TRUE
    IN  dispatch([c EXCEPT !.req.family = f], store, next_id, request'.data)

\* C9: every route family answers a request (on the collection, or on a
\* numeric id) with the same status and the same resulting table as the
\* family that handled it.  The code answers an accepted PUT with 202 on
\* fbv and api-view and with 200 on mixin and generic.
C9_FamiliesAgree ==
    [][(/\ request'.method \in {"GET", "POST", "PUT", "DELETE"}
        /\ IsSome(request'.pk) => Get(request'.pk).numeric)
       => \A f \in Families :
             /\ ~IsSome(OnFamily(f).next)
             /\ OnFamily(f).response.status = response'.status
             /\ OnFamily(f).store = store']_vars

\* C10: the duplicate-name check of an owner's update compares the name
\* with every stored record, the updated one included: with a name that a
\* stored record holds, its own current name included, the update is
\* answered 400 with the duplicate-name error and the step changes
\* nothing; an update goes on to save() only with a name no stored record
\* holds, and only such an update is accepted.
C10_OwnNameCountsAsDuplicate ==
    [][/\ \A c \in Continued :
             (/\ c.pc = "validate"
              /\ c.req.method = "PUT"
              /\ name_exists(store, Get(c.req.data.name)))
             => /\ request' = c.req
                /\ response'.status = 400
                /\ response'.errors = {"duplicate_name"}
                /\ store' = store
       /\ \A c \in Moved :
             (c.req.method = "PUT" /\ c.pc = "save")
             => ~name_exists(store, Get(c.req.data.name))
       /\ (request'.method = "PUT" /\ ~Rejected(response'))
          => \E c \in Continued : c.pc \in {"save", "insert"}]_vars

\* C10 witness: the owner re-sent the record's own name with a valid price
\* and was answered with the duplicate-name error.
C10_Witness ==
    /\ request.method = "PUT"
    /\ OnRecord(request, store)
    /\ store[Target(request)].created_by = request.user
    /\ request.data.name = Some(store[Target(request)].name)
    /\ response.status = 400
    /\ response.errors = {"duplicate_name"}

====
